---------------------------- MODULE Spec2Model ----------------------------
(***************************************************************************)
(* A model of pwv_kpno/end_user_functions.py: the function `transmission`  *)
(* and its argument check `_check_transmission_args`, together with the    *)
(* two library routines they rest on (numpy.interp and                     *)
(* scipy.interpolate.interpn with its default arguments).                  *)
(*                                                                         *)
(* Times are seconds since the epoch.  PWV values, airmasses and           *)
(* transmissions are exact rationals [n |-> numerator, d |-> denominator]  *)
(* kept in lowest terms with d > 0; floating-point rounding is not         *)
(* modelled.  The record [n |-> 0, d |-> 0] stands for NaN.                *)
(***************************************************************************)
EXTENDS Integers, Sequences, FiniteSets

VARIABLES
    pwv_model,            \* the table modeled_pwv.csv: rows [date, pwv], ascending dates
    atm_model_files,      \* the files of atm_models in glob order
    date,                 \* argument `date` of the call in progress
    airmass,              \* argument `airmass` of the call in progress
    pc,                   \* position of the call in `transmission`
    pwv,                  \* line-of-sight PWV (line 347)
    wavelength,           \* wavelength axis read from the first file (line 351)
    pwv_values,           \* PWV level of each file (line 359)
    transmission_models,  \* one row of transmissions per file (line 362)
    result,               \* what the call returned or raised
    trace                 \* stages the call in progress has entered, in order

vars == <<pwv_model, atm_model_files, date, airmass, pc, pwv, wavelength,
          pwv_values, transmission_models, result, trace>>

----------------------------------------------------------------------------
(* Bounds of the model *)

MaxSamples == 3
MaxFiles == 3

----------------------------------------------------------------------------
(* Exact rational arithmetic *)

Abs(x) == IF x < 0 THEN -x ELSE x

RECURSIVE Gcd(_, _)
Gcd(a, b) == IF b = 0 THEN a ELSE Gcd(b, a % b)

NaN == [n |-> 0, d |-> 0]
IsNaN(a) == a.d = 0

\* n/d in lowest terms; 0/0 (and x/0) is NaN
Rat(n, d) ==
    IF d = 0 THEN NaN
    ELSE LET s == IF d < 0 THEN -1 ELSE 1
             g == Gcd(Abs(n), Abs(d))
         IN  [n |-> (s * n) \div g, d |-> (s * d) \div g]

Int2Rat(i) == [n |-> i, d |-> 1]

RatAdd(a, b) == Rat(a.n * b.d + b.n * a.d, a.d * b.d)
RatSub(a, b) == Rat(a.n * b.d - b.n * a.d, a.d * b.d)
RatMul(a, b) == Rat(a.n * b.n, a.d * b.d)
RatDiv(a, b) == Rat(a.n * b.d, a.d * b.n)
\* comparisons with NaN are false, as in IEEE arithmetic
RatLt(a, b) == ~IsNaN(a) /\ ~IsNaN(b) /\ a.n * b.d < b.n * a.d
RatLe(a, b) == ~IsNaN(a) /\ ~IsNaN(b) /\ a.n * b.d <= b.n * a.d

----------------------------------------------------------------------------
(* Sequences *)

Range(s) == {s[i] : i \in 1..Len(s)}

SetMin(S) == CHOOSE x \in S : \A y \in S : x <= y
SetMax(S) == CHOOSE x \in S : \A y \in S : y <= x

RECURSIVE SortedSeq(_)
SortedSeq(S) ==
    IF S = {} THEN <<>> ELSE <<SetMin(S)>> \o SortedSeq(S \ {SetMin(S)})

StrictlyAscending(s) == \A i \in 1..(Len(s) - 1) : s[i] < s[i + 1]

----------------------------------------------------------------------------
(* Results of a call *)

NoResult == [kind |-> "none"]
Passed == [kind |-> "passed"]

\* an exception of Python class exc; err names what the message is about
Raise(exc, err, info) == [kind |-> "error", exc |-> exc, err |-> err, info |-> info]

\* the astropy table trans_func (lines 370-376)
TransFunc(w, t) == [kind |-> "table", wavelength |-> w, transmission |-> t]

----------------------------------------------------------------------------
(* datetime values *)

\* a datetime: wall-clock seconds since 1970-01-01T00:00 and, when tzinfo is
\* set, the UTC offset of its time zone in seconds
Datetime(wall, tz) ==
    [isDatetime |-> TRUE, tzAware |-> TRUE, wall |-> wall, utcoffset |-> tz]
NaiveDatetime(wall) ==
    [isDatetime |-> TRUE, tzAware |-> FALSE, wall |-> wall, utcoffset |-> 0]
NotADatetime ==
    [isDatetime |-> FALSE, tzAware |-> FALSE, wall |-> 0, utcoffset |-> 0]

\* datetime.utcfromtimestamp: the naive datetime showing UTC wall-clock time
utcfromtimestamp(ts) == NaiveDatetime(ts)

\* timedelta(seconds=...)
timedelta(seconds) == [seconds |-> seconds]

\* _timestamp (lines 55-68): date.astimezone(utc) minus the Unix epoch
_timestamp(d) == d.wall - d.utcoffset

----------------------------------------------------------------------------
(* _check_transmission_args, lines 271-321 *)

Dates(model) == [i \in 1..Len(model) |-> model[i].date]
Pwvs(model) == [i \in 1..Len(model) |-> model[i].pwv]

\* line 316
three_days_in_seconds == 24 * 60 * 60

\* lines 288-297: argument types
CheckTypes(d, a) ==
    IF ~d.isDatetime
    THEN Raise("TypeError", "InvalidArgument", "date")
    ELSE IF ~d.tzAware
    THEN Raise("ValueError", "InvalidArgument", "tzinfo")
    ELSE IF ~a.isNumber
    THEN Raise("TypeError", "InvalidArgument", "airmass")
    ELSE Passed

\* lines 299-311: the date falls within the range of available PWV data
CheckRange(timestamp, model) ==
    LET w_data_less_than == {i \in 1..Len(model) : model[i].date < timestamp}
        w_data_greater_than == {i \in 1..Len(model) : timestamp < model[i].date}
    IN  IF Cardinality(w_data_less_than) < 1
        THEN Raise("ValueError", "OutOfRange",
                   [bound |-> "before",
                    date |-> utcfromtimestamp(SetMin(Range(Dates(model))))])
        ELSE IF Cardinality(w_data_greater_than) < 1
        THEN Raise("ValueError", "OutOfRange",
                   [bound |-> "after",
                    date |-> utcfromtimestamp(SetMax(Range(Dates(model))))])
        ELSE Passed

\* lines 313-321: SuomiNet data is available near the date
\* (reached only with a sample on each side of timestamp)
CheckNear(timestamp, model) ==
    LET diff == [i \in 1..Len(model) |-> model[i].date - timestamp]
        interval == SetMin({diff[i] : i \in {k \in 1..Len(model) : diff[k] > 0}})
                      - SetMax({diff[i] : i \in {k \in 1..Len(model) : diff[k] < 0}})
    IN  IF three_days_in_seconds < interval
        THEN Raise("ValueError", "GapTooLarge", timedelta(interval))
        ELSE Passed

\* the checks of _check_transmission_args with the range test moved first
_check_transmission_args_RangeFirst(d, a, model) ==
    IF CheckRange(_timestamp(d), model).kind = "error"
    THEN CheckRange(_timestamp(d), model)
    ELSE IF CheckTypes(d, a).kind = "error" THEN CheckTypes(d, a)
    ELSE CheckNear(_timestamp(d), model)

_check_transmission_args(d, a, model) ==
    IF CheckTypes(d, a).kind = "error" THEN CheckTypes(d, a)
    ELSE IF CheckRange(_timestamp(d), model).kind = "error"
    THEN CheckRange(_timestamp(d), model)
    ELSE CheckNear(_timestamp(d), model)

----------------------------------------------------------------------------
(* numpy.interp(x, xp, fp) with its defaults, as called on line 347 *)

\* numpy.interp taking the sample at or before x instead of interpolating
interp_Step(x, xp, fp) ==
    LET n == Len(xp)
    IN  IF x > xp[n] THEN Int2Rat(fp[n])
        ELSE IF x < xp[1] THEN Int2Rat(fp[1])
        ELSE Int2Rat(fp[SetMax({k \in 1..n : xp[k] <= x})])

interp(x, xp, fp) ==
    LET n == Len(xp)
    IN  IF x > xp[n] THEN Int2Rat(fp[n])
        ELSE IF x < xp[1] THEN Int2Rat(fp[1])
        ELSE LET j == SetMax({k \in 1..n : xp[k] <= x})
             IN  IF j = n \/ xp[j] = x
                 THEN Int2Rat(fp[j])
                 ELSE LET slope == Rat(fp[j + 1] - fp[j], xp[j + 1] - xp[j])
                      IN  RatAdd(RatMul(slope, Int2Rat(x - xp[j])), Int2Rat(fp[j]))

\* line 347: pwv(zenith) * airmass
LineOfSightPwv(timestamp, model, a) ==
    RatMul(interp(timestamp, Dates(model), Pwvs(model)), a.value)

----------------------------------------------------------------------------
(* Reading the atmospheric models, lines 349-362 *)

\* line 362: assignment of a column to a row of transmission_models; numpy
\* broadcasts a column of length 1 and rejects any other length mismatch
Broadcasts(column, row_len) == Len(column) = row_len \/ Len(column) = 1

AssignRow(column, row_len) ==
    IF Len(column) = row_len THEN [j \in 1..row_len |-> column[j]]
    ELSE [j \in 1..row_len |-> column[1]]

ReadAtmModels(files) ==
    IF Len(files) = 0
    THEN Raise("IndexError", "NoModelFiles", "atm_model_files[0]")
    ELSE LET w == files[1].wavelength
         IN  IF \E i \in 1..Len(files) : ~Broadcasts(files[i].transmission, Len(w))
             THEN Raise("ValueError", "ShapeMismatch", "transmission_models[i, :]")
             ELSE [kind |-> "passed",
                   wavelength |-> w,
                   pwv_values |-> [i \in 1..Len(files) |-> files[i].pwv],
                   transmission_models |->
                       [i \in 1..Len(files) |->
                           AssignRow(files[i].transmission, Len(w))]]

----------------------------------------------------------------------------
(* scipy.interpolate.interpn(points, values, xi) with its defaults           *)
(* (method="linear", bounds_error=True), as called on lines 365-367          *)

\* RegularGridInterpolator._find_indices: np.searchsorted(grid, x) - 1,
\* clipped to 0 .. grid.size - 2; returned 1-based.  With grid.size = 1 the
\* clipped index is -1, which Python reads as the last (only) element.
FindIndex(grid, x) ==
    LET i == Cardinality({k \in 1..Len(grid) : RatLt(Int2Rat(grid[k]), x)}) - 1
        lo == IF i < 0 THEN 0 ELSE i
        hi == IF lo > Len(grid) - 2 THEN Len(grid) - 2 ELSE lo
    IN  IF Len(grid) = 1 THEN 1 ELSE hi + 1

NextIndex(grid, i) == IF Len(grid) = 1 THEN 1 ELSE i + 1

\* the distance x - grid[i], not divided by the width of the cell
NormDistance_Undivided(grid, x, guarded) ==
    IF Len(grid) = 1 THEN (IF guarded THEN Int2Rat(0) ELSE NaN)
    ELSE RatSub(x, Int2Rat(grid[FindIndex(grid, x)]))

\* (x - grid[i]) / (grid[i + 1] - grid[i]).  On a grid of one point this is
\* 0/0: NaN in the scipy releases that divide, 0 in those that guard the
\* division (guarded).
NormDistance(grid, x, guarded) ==
    IF Len(grid) = 1 THEN (IF guarded THEN Int2Rat(0) ELSE NaN)
    ELSE LET i == FindIndex(grid, x)
         IN  RatDiv(RatSub(x, Int2Rat(grid[i])), Int2Rat(grid[i + 1] - grid[i]))

\* the two weights exchanged
Weight_Swapped(upper, y) == IF upper THEN RatSub(Int2Rat(1), y) ELSE y

\* 1 - y for the lower corner, y for the upper one
Weight(upper, y) == IF upper THEN y ELSE RatSub(Int2Rat(1), y)

\* RegularGridInterpolator._evaluate_linear at the point (p, x): the sum over
\* the four corners of the cell of value * weight
EvaluateLinear(points0, points1, values, p, x, guarded) ==
    LET i0 == FindIndex(points0, p)
        i1 == FindIndex(points1, x)
        y0 == NormDistance(points0, p, guarded)
        y1 == NormDistance(points1, x, guarded)
        Corner(u0, u1) ==
            RatMul(Int2Rat(values[IF u0 THEN NextIndex(points0, i0) ELSE i0]
                                 [IF u1 THEN NextIndex(points1, i1) ELSE i1]),
                   RatMul(Weight(u0, y0), Weight(u1, y1)))
    IN  RatAdd(RatAdd(Corner(FALSE, FALSE), Corner(FALSE, TRUE)),
               RatAdd(Corner(TRUE, FALSE), Corner(TRUE, TRUE)))

\* xi lies in the domain of the grid (the bounds_error=True test)
InBounds(grid, x) ==
    RatLe(Int2Rat(grid[1]), x) /\ RatLe(x, Int2Rat(grid[Len(grid)]))

\* x moved to the nearest end of the grid when it lies outside
Clamp(grid, x) ==
    IF RatLt(x, Int2Rat(grid[1])) THEN Int2Rat(grid[1])
    ELSE IF RatLt(Int2Rat(grid[Len(grid)]), x) THEN Int2Rat(grid[Len(grid)])
    ELSE x

\* interpn clamping xi to the grid instead of raising (what numpy.interp does)
interpn_Clamped(points0, points1, values, p) ==
    IF ~StrictlyAscending(points0) \/ ~StrictlyAscending(points1)
    THEN {Raise("ValueError", "GridNotAscending", "points")}
    ELSE {[kind |-> "passed",
           interp_trans |->
               [j \in 1..Len(points1) |->
                   EvaluateLinear(points0, points1, values, Clamp(points0, p),
                                  Int2Rat(points1[j]), guarded)]]
             : guarded \in BOOLEAN}

\* the set of outcomes of interpn(points=(points0, points1), values=values,
\* xi=[[p, x] for x in points1]): an exception, or the interpolated column
interpn(points0, points1, values, p) ==
    IF ~StrictlyAscending(points0) \/ ~StrictlyAscending(points1)
    THEN {Raise("ValueError", "GridNotAscending", "points")}
    ELSE IF ~InBounds(points0, p)
    THEN {Raise("ValueError", "OutOfBounds", "dimension 0")}
    ELSE {[kind |-> "passed",
           interp_trans |->
               [j \in 1..Len(points1) |->
                   EvaluateLinear(points0, points1, values, p,
                                  Int2Rat(points1[j]), guarded)]]
             : guarded \in BOOLEAN}

----------------------------------------------------------------------------
(* The inputs: the files on disk and the arguments of a call *)

\* dates (seconds) of the rows modeled_pwv.csv may hold
SampleDates == {0, 3600, 40000, 299200, 300000}
\* PWV values (mm) of its rows
SamplePwvs == {2, 4}

\* the tables with 1 .. MaxSamples rows, ascending in date
PwvModels ==
    {[i \in 1..Cardinality(S) |-> [date |-> SortedSeq(S)[i], pwv |-> f[SortedSeq(S)[i]]]] :
        <<S, f>> \in UNION {{<<T, g>> : g \in [T -> SamplePwvs]} :
                        T \in {U \in SUBSET SampleDates :
                                  Cardinality(U) \in 1..MaxSamples}}}

Axis == <<7000, 8500, 10000>>
AxisShifted == <<7000, 9000, 10000>>
AxisShort == <<7000, 8500>>

\* one file of atm_models: the PWV level in its name and its two columns
AtmModel(level, w, t) == [pwv |-> level, wavelength |-> w, transmission |-> t]

Curve0 == AtmModel(0, Axis, <<100, 100, 100>>)
CurveA == AtmModel(2, Axis, <<90, 50, 80>>)
CurveC == AtmModel(4, Axis, <<60, 40, 90>>)
CurveB == AtmModel(6, Axis, <<70, 20, 60>>)
CurveD == AtmModel(12, Axis, <<30, 10, 20>>)
CurveA2 == AtmModel(2, Axis, <<95, 55, 85>>)
CurveBShifted == AtmModel(6, AxisShifted, <<70, 20, 60>>)
CurveBShort == AtmModel(6, AxisShort, <<70, 20>>)

\* the directories of up to MaxFiles files, as glob lists them
AtmModelDirs ==
    {dir \in {<<>>,
              <<CurveA>>,
              <<CurveA, CurveB>>,
              <<Curve0, CurveA, CurveB>>,
              <<CurveA, CurveC, CurveB>>,
              <<Curve0, CurveA, CurveC, CurveB>>,
              <<CurveA, CurveC, CurveB, CurveD>>,
              <<CurveA, CurveB, CurveC>>,
              <<CurveA, CurveA2>>,
              <<CurveA, CurveBShifted>>,
              <<CurveA, CurveBShort>>} : Len(dir) <= MaxFiles}

\* UTC offsets (seconds) of the time zones of the dates asked for
UtcOffsets == {0, 3600}
\* their wall-clock times (seconds)
WallClocks == {-100, 0, 1800, 3600, 40000, 50000, 299200, 300000, 400000}

DateArgs ==
    {NotADatetime}
        \cup {NaiveDatetime(w) : w \in WallClocks}
        \cup {Datetime(w, tz) : w \in WallClocks, tz \in UtcOffsets}

Number(n, d) == [isNumber |-> TRUE, value |-> Rat(n, d)]
NotANumber == [isNumber |-> FALSE, value |-> NaN]

\* the airmasses asked for
AirmassArgs ==
    <<Number(1, 1), Number(2, 1), Number(1, 2), Number(0, 1), Number(-1, 1),
      NotANumber>>

----------------------------------------------------------------------------
(* The state machine: calls of transmission(date, airmass), one at a time *)

NoPwv == NaN

Init ==
    /\ pwv_model \in PwvModels
    /\ atm_model_files \in AtmModelDirs
    /\ date = NotADatetime
    /\ airmass = NotANumber
    /\ pc = "idle"
    /\ pwv = NoPwv
    /\ wavelength = <<>>
    /\ pwv_values = <<>>
    /\ transmission_models = <<>>
    /\ result = NoResult
    /\ trace = <<>>

\* transmission(d, a) is called; line 342 reads modeled_pwv.csv
Call(d, a) ==
    /\ pc = "idle"
    /\ date' = d
    /\ airmass' = a
    /\ pc' = "check_args"
    /\ result' = NoResult
    /\ trace' = <<>>
    /\ UNCHANGED <<pwv_model, atm_model_files, pwv, wavelength, pwv_values,
                   transmission_models>>

\* line 343
CheckArgs ==
    /\ pc = "check_args"
    /\ trace' = Append(trace, "check_args")
    /\ LET r == _check_transmission_args(date, airmass, pwv_model)
       IN  IF r.kind = "error"
           THEN result' = r /\ pc' = "done"
           ELSE result' = result /\ pc' = "line_of_sight"
    /\ UNCHANGED <<pwv_model, atm_model_files, date, airmass, pwv, wavelength,
                   pwv_values, transmission_models>>

\* lines 345-347
LineOfSight ==
    /\ pc = "line_of_sight"
    /\ trace' = Append(trace, "line_of_sight")
    /\ pwv' = LineOfSightPwv(_timestamp(date), pwv_model, airmass)
    /\ pc' = "read_models"
    /\ UNCHANGED <<pwv_model, atm_model_files, date, airmass, wavelength,
                   pwv_values, transmission_models, result>>

\* lines 349-362
ReadModels ==
    /\ pc = "read_models"
    /\ trace' = Append(trace, "read_models")
    /\ LET r == ReadAtmModels(atm_model_files)
       IN  IF r.kind = "error"
           THEN /\ result' = r
                /\ pc' = "done"
                /\ UNCHANGED <<wavelength, pwv_values, transmission_models>>
           ELSE /\ wavelength' = r.wavelength
                /\ pwv_values' = r.pwv_values
                /\ transmission_models' = r.transmission_models
                /\ pc' = "interpolate"
                /\ result' = result
    /\ UNCHANGED <<pwv_model, atm_model_files, date, airmass, pwv>>

\* lines 364-376
Interpolate ==
    /\ pc = "interpolate"
    /\ trace' = Append(trace, "interpolate")
    /\ \E r \in interpn(pwv_values, wavelength, transmission_models, pwv) :
          result' = IF r.kind = "error" THEN r
                    ELSE TransFunc(wavelength, r.interp_trans)
    /\ pc' = "done"
    /\ UNCHANGED <<pwv_model, atm_model_files, date, airmass, pwv, wavelength,
                   pwv_values, transmission_models>>

\* the call has returned or raised; the caller may call again
Return ==
    /\ pc = "done"
    /\ pc' = "idle"
    /\ date' = NotADatetime
    /\ airmass' = NotANumber
    /\ pwv' = NoPwv
    /\ wavelength' = <<>>
    /\ pwv_values' = <<>>
    /\ transmission_models' = <<>>
    /\ result' = NoResult
    /\ trace' = <<>>
    /\ UNCHANGED <<pwv_model, atm_model_files>>

Next ==
    \/ \E d \in DateArgs, k \in 1..Len(AirmassArgs) : Call(d, AirmassArgs[k])
    \/ CheckArgs
    \/ LineOfSight
    \/ ReadModels
    \/ Interpolate
    \/ Return

Spec == Init /\ [][Next]_vars

----------------------------------------------------------------------------
(* Vocabulary of the properties *)

\* the instant asked for, in seconds since the epoch
T == _timestamp(date)

SampleTimes == Range(Dates(pwv_model))
Earliest == SetMin(SampleTimes)
Latest == SetMax(SampleTimes)

\* the query has the shape lines 288-297 ask for
ShapeOk == date.isDatetime /\ date.tzAware /\ airmass.isNumber

\* _check_transmission_args has run
Checked == pc \in {"line_of_sight", "read_models", "interpolate", "done"}

\* ... and raised nothing
ValidationPassed == Checked /\ ~(pc = "done" /\ Len(trace) = 1)

\* ... and raised an error about err
ValidationFailedWith(err) ==
    /\ pc = "done"
    /\ Len(trace) = 1
    /\ result.kind = "error"
    /\ result.err = err

\* the call went through every stage; result is what interpn made of it
Interpolated == pc = "done" /\ Len(trace) = 4

FailedWith(err) == pc = "done" /\ result.kind = "error" /\ result.err = err

ReturnedTable == pc = "done" /\ result.kind = "table"

ThreeDays == 3 * 24 * 60 * 60

Levels(files) == {files[i].pwv : i \in 1..Len(files)}

\* the structural invariant of a transmission grid: two distinct PWV levels
\* at least, and one wavelength axis shared by every curve
ValidGrid(files) ==
    /\ Cardinality(Levels(files)) >= 2
    /\ \A i \in 1..Len(files) :
          /\ files[i].wavelength = files[1].wavelength
          /\ Len(files[i].transmission) = Len(files[i].wavelength)

\* a valid grid listed by ascending level, on an ascending wavelength axis
SortedGrid(files) ==
    /\ ValidGrid(files)
    /\ StrictlyAscending([i \in 1..Len(files) |-> files[i].pwv])
    /\ StrictlyAscending(files[1].wavelength)

MinLevel(files) == SetMin(Levels(files))
MaxLevel(files) == SetMax(Levels(files))

\* the column of transmissions of the file of level l
CurveOf(files, l) ==
    LET f == CHOOSE g \in Range(files) : g.pwv = l
    IN  [i \in 1..Len(f.transmission) |-> Int2Rat(f.transmission[i])]

IsCurve(t, files, l) == t = CurveOf(files, l)

----------------------------------------------------------------------------
(* Coverage validation *)

\* T lies strictly between the consecutive samples i and i + 1
Straddles(i) ==
    /\ i \in 1..(Len(pwv_model) - 1)
    /\ pwv_model[i].date < T
    /\ T < pwv_model[i + 1].date

\* the sum of the two one-sided gaps around T, for T between samples i, i + 1
GapSum(i) == (pwv_model[i + 1].date - T) + (T - pwv_model[i].date)

\* C1: for a timestamp strictly between two consecutive samples, validation
\* fails with GapTooLarge when the two one-sided gaps sum to more than
\* 259200 seconds, and succeeds when they sum to at most 259200 seconds.
C1_GapThresholdThreeDays ==
    (Checked /\ ShapeOk) =>
        \A i \in 1..(Len(pwv_model) - 1) :
            Straddles(i) =>
                /\ GapSum(i) > ThreeDays => ValidationFailedWith("GapTooLarge")
                /\ GapSum(i) <= ThreeDays => ValidationPassed

\* C2: validation fails with OutOfRange exactly when T is earlier than the
\* earliest sample or later than the latest one (a T equal to either is in
\* range), and with every sample before T the error names the latest sample
\* time as the upper bound.
C2_OutOfRangeExactlyOutsideSpan ==
    (Checked /\ ShapeOk) =>
        /\ ValidationFailedWith("OutOfRange") <=> (T < Earliest \/ Latest < T)
        /\ Latest < T =>
              /\ ValidationFailedWith("OutOfRange")
              /\ result.info.bound = "after"
              /\ result.info.date = utcfromtimestamp(Latest)

\* C10: a timestamp equal to the timestamp of a sample has both one-sided
\* gaps 0 and never fails with GapTooLarge, however far the neighbours are.
C10_NoGapAtSample ==
    (Checked /\ ShapeOk /\ T \in SampleTimes) => ~ValidationFailedWith("GapTooLarge")

----------------------------------------------------------------------------
(* Airmass *)

NonPositive(a) == a.isNumber /\ RatLe(a.value, Int2Rat(0))

\* C3: a call whose airmass is a number <= 0 fails with InvalidArgument and
\* returns no spectrum, whatever the timestamp, the series and the grid are;
\* airmass values in (0, 1) are not rejected.
C3_NonPositiveAirmassRejected ==
    /\ (pc = "done" /\ NonPositive(airmass)) => FailedWith("InvalidArgument")
    /\ (Checked /\ date.isDatetime /\ date.tzAware /\ airmass.isNumber
            /\ RatLt(Int2Rat(0), airmass.value) /\ RatLt(airmass.value, Int2Rat(1)))
         => ~ValidationFailedWith("InvalidArgument")

----------------------------------------------------------------------------
(* Line of sight *)

\* the piecewise-linear interpolant of the series at T, from samples i, i + 1
Zenith(i) ==
    RatAdd(Int2Rat(pwv_model[i].pwv),
           RatMul(Int2Rat(pwv_model[i + 1].pwv - pwv_model[i].pwv),
                  Rat(T - pwv_model[i].date,
                      pwv_model[i + 1].date - pwv_model[i].date)))

\* C7: once validation has succeeded, the line-of-sight PWV is the linear
\* interpolation of the series between the two samples bracketing the
\* timestamp, multiplied by the airmass.
C7_LineOfSightIsInterpolationTimesAirmass ==
    pc \in {"read_models", "interpolate", "done"} /\ Len(trace) >= 2 =>
        /\ \E i \in 1..(Len(pwv_model) - 1) :
              pwv_model[i].date <= T /\ T <= pwv_model[i + 1].date
        /\ \A i \in 1..(Len(pwv_model) - 1) :
              (pwv_model[i].date <= T /\ T <= pwv_model[i + 1].date) =>
                  pwv = RatMul(Zenith(i), airmass.value)

\* samples (0, 2) and (3600, 4), timestamp 1800, airmass 2: line of sight 6
C7_Witness ==
    /\ pc = "read_models"
    /\ pwv_model = <<[date |-> 0, pwv |-> 2], [date |-> 3600, pwv |-> 4]>>
    /\ T = 1800
    /\ airmass = Number(2, 1)
    /\ pwv = Int2Rat(6)

----------------------------------------------------------------------------
(* Interpolation across the grid *)

BelowGrid == RatLt(pwv, Int2Rat(MinLevel(atm_model_files)))
AboveGrid == RatLt(Int2Rat(MaxLevel(atm_model_files)), pwv)

\* C4 as stated: for a valid grid and a line-of-sight PWV outside the grid's
\* levels the interpolation does not fail: below the minimum level it returns
\* the minimum-level curve, above the maximum level the maximum-level curve.
C4_ClampsOutsideGrid ==
    (Interpolated /\ SortedGrid(atm_model_files)) =>
        /\ BelowGrid =>
              /\ ReturnedTable
              /\ IsCurve(result.transmission, atm_model_files, MinLevel(atm_model_files))
        /\ AboveGrid =>
              /\ ReturnedTable
              /\ IsCurve(result.transmission, atm_model_files, MaxLevel(atm_model_files))

\* C4 as amended: for a valid grid and a line-of-sight PWV outside the grid's
\* levels the interpolation fails: interpn raises its out-of-bounds
\* ValueError and no table is returned.
C4_RaisesOutsideGrid ==
    (Interpolated /\ SortedGrid(atm_model_files) /\ (BelowGrid \/ AboveGrid)) =>
        /\ FailedWith("OutOfBounds")
        /\ result.exc = "ValueError"

C4_Witness ==
    /\ Interpolated
    /\ SortedGrid(atm_model_files)
    /\ AboveGrid
    /\ RatLt(Int2Rat(1), airmass.value)
    /\ FailedWith("OutOfBounds")

\* C6: for a PWV equal to one of the grid's levels the interpolation returns
\* that level's curve unchanged at every wavelength, on the grid's wavelength
\* axis in the same order and length.
C6_ExactAtGridLevel ==
    (Interpolated /\ SortedGrid(atm_model_files)) =>
        \A l \in Levels(atm_model_files) :
            pwv = Int2Rat(l) =>
                /\ ReturnedTable
                /\ result.wavelength = atm_model_files[1].wavelength
                /\ Len(result.transmission) = Len(result.wavelength)
                /\ \A i \in 1..Len(result.wavelength) :
                      result.transmission[i] = CurveOf(atm_model_files, l)[i]

\* levels 2 and 6 on the axis 7000, 8500, 10000; PWV 6: the curve of level 6
C6_Witness ==
    /\ ReturnedTable
    /\ atm_model_files = <<CurveA, CurveB>>
    /\ pwv = Int2Rat(6)
    /\ result.wavelength = <<7000, 8500, 10000>>
    /\ result.transmission = <<Int2Rat(70), Int2Rat(20), Int2Rat(60)>>

Between(x, a, b) ==
    \/ RatLe(a, x) /\ RatLe(x, b)
    \/ RatLe(b, x) /\ RatLe(x, a)

C9_InvalidGridRejected ==
    (pc = "done" /\ ValidationPassed /\ ~ValidGrid(atm_model_files)) =>
        result.kind = "error"

----------------------------------------------------------------------------
(* The pipeline *)

Stages == <<"check_args", "line_of_sight", "read_models", "interpolate">>

IsPrefix(s, t) == Len(s) <= Len(t) /\ \A i \in 1..Len(s) : s[i] = t[i]

\* the errors each stage raises
StageErrors(stage) ==
    CASE stage = "check_args" -> {"InvalidArgument", "OutOfRange", "GapTooLarge"}
      [] stage = "line_of_sight" -> {}
      [] stage = "read_models" -> {"NoModelFiles", "ShapeMismatch"}
      [] stage = "interpolate" -> {"GridNotAscending", "OutOfBounds"}

\* the shape of a query as the pipeline's first stage is stated to check it:
\* timestamp type, time zone present, airmass type and range
StatedShapeOk == ShapeOk /\ ~NonPositive(airmass)

\* the pipeline, for a first stage that accepts the queries of shape shapeOk
LinearPipeline(shapeOk) ==
    /\ IsPrefix(trace, Stages)
    /\ pc # "done" => result = NoResult
    /\ pc = "done" =>
          /\ result.kind \in {"error", "table"}
          /\ result.kind = "table" => trace = Stages /\ shapeOk
          /\ result.kind = "error" =>
                /\ Len(trace) >= 1
                /\ result.err \in StageErrors(trace[Len(trace)])
          /\ ~shapeOk => ValidationFailedWith("InvalidArgument")
          /\ (result.kind = "error" /\ result.err \in {"OutOfRange", "GapTooLarge"})
                => shapeOk
          /\ (result.kind = "error" /\ result.err = "GapTooLarge")
                => (\E t \in SampleTimes : t < T) /\ (\E t \in SampleTimes : T < t)

\* C5: the call is an all-or-nothing linear pipeline: the stages run in the
\* order validation of the query's shape (timestamp type, time zone present,
\* airmass type and range), coverage validation, line-of-sight estimation,
\* interpolation; the call fails with the error of the first stage that
\* fails, and a table is returned only when every stage succeeded.  A
\* timestamp without a time zone fails with InvalidArgument even when it is
\* also out of range or inside a gap.
C5_LinearPipeline == LinearPipeline(StatedShapeOk)

\* the same pipeline with the first stage as the code has it (lines 288-297:
\* timestamp type, time zone present, airmass type)
PipelineOfCode == LinearPipeline(ShapeOk)

\* a naive timestamp later than every sample: InvalidArgument, not OutOfRange
NaiveOutOfRangeIsInvalidArgument ==
    /\ pc = "done"
    /\ date.isDatetime
    /\ ~date.tzAware
    /\ airmass.isNumber
    /\ Latest < date.wall
    /\ ValidationFailedWith("InvalidArgument")

\* an airmass of 0 on a grid with a level 0: a table is returned
NonPositiveAirmassReturnsTable == ReturnedTable /\ NonPositive(airmass)

=============================================================================
